---- MODULE Spec2Model ----
(***************************************************************************)
(* A model of trade.accumulator.Accumulator: the running position          *)
(* (quantity, average price, named results) of one asset, its per-date     *)
(* log, and the calls that change them (accumulate, accumulate_event).     *)
(*                                                                         *)
(* Numbers.  Quantities are integers.  Prices and result values are exact  *)
(* rationals <<n, d>> in lowest terms with d > 0, so that the average      *)
(* price (a division) is computed and not approximated.                    *)
(*                                                                         *)
(* Objects.  Python dicts are objects: the accumulator, the log entries    *)
(* and the caller hold references to them.  heap maps an object id to the  *)
(* dict's content (a function from keys to rationals), results is the id   *)
(* self.results refers to, and a log entry stores the id of the mapping    *)
(* it was given.                                                           *)
(***************************************************************************)
EXTENDS Integers, Sequences, FiniteSets, TLC

VARIABLES
    initial_status, \* the initial_status argument of __init__, or NoStatus
    date,           \* self.date
    quantity,       \* self.quantity
    price,          \* self.price
    results,        \* self.results: the id of the dict it refers to
    logging,        \* self.logging
    log,            \* self.log: date -> record
    heap,           \* contents of the dict objects that are still referenced
    ncalls,         \* number of calls made so far
    last,           \* the last call: its arguments, the state before it, its outcome
    history,        \* the accumulate calls that returned while logging, in order,
                    \* each with the position it left
    sumSupplied,    \* per key, the sum of the values supplied by returned accumulate calls
    sumRealized,    \* the sum of the trade results generated by returned accumulate calls
    flags,          \* what the run has done so far: events applied, a zero price traded
    container,      \* the container given to prorate_commissions
    given,          \* the container as it was when it was given
    prorated        \* prorate_commissions has returned

vars == <<initial_status, date, quantity, price, results, logging, log, heap,
          ncalls, last, history, sumSupplied, sumRealized, flags,
          container, given, prorated>>

-----------------------------------------------------------------------------
(* Bounds and input sets *)

MaxCalls == 3        \* calls per run without logging
MaxLogCalls == 3     \* calls per run with logging

Quantities == {-3, -2, 0, 2}
Prices == {0, 10, 12}
LogQuantities == {-3, 2}
LogPrices == {10, 12}
NoDate == "None"
Dates == {"2020-01-01", "2020-01-02"}
Keys == {"trades", "daytrade", "dividends"}
\* how the caller gives the results argument: omitted, a new dict literal
\* without a "trades" key, or a dict object the caller keeps and passes again
ResultsArgs == {"omitted", "literal", "shared"}
EventKinds == {"split", "payout", "writeoff"}

FreshIds == <<"call1", "call2", "call3", "call4", "call5", "call6", "call7", "call8">>

-----------------------------------------------------------------------------
(* Exact rational arithmetic *)

Abs(x) == IF x < 0 THEN -x ELSE x

RECURSIVE GCD(_, _)
GCD(a, b) == IF b = 0 THEN a ELSE GCD(b, a % b)

Rat(n, d) ==
    LET g == GCD(Abs(n), Abs(d))
        s == IF d < 0 THEN -1 ELSE 1
    IN  <<(s * n) \div g, (s * d) \div g>>

R(i) == <<i, 1>>
Zero == R(0)
RAdd(a, b) == Rat(a[1] * b[2] + b[1] * a[2], a[2] * b[2])
RSub(a, b) == Rat(a[1] * b[2] - b[1] * a[2], a[2] * b[2])
RMul(a, b) == Rat(a[1] * b[1], a[2] * b[2])
RDiv(a, b) == Rat(a[1] * b[2], a[2] * b[1])
RPos(a) == a[1] > 0

-----------------------------------------------------------------------------
(* trade.utils, imported at accumulator.py:28 *)

\* the quantity-weighted average of (quantity_1, price_1) and (quantity_2, price_2)
average_price(quantity_1, price_1, quantity_2, price_2) ==
    RDiv(RAdd(RMul(R(quantity_1), price_1), RMul(R(quantity_2), price_2)),
         R(quantity_1 + quantity_2))

\* TRUE when x and y have the same sign; a zero is compatible with anything
same_sign(x, y) == x = 0 \/ y = 0 \/ ((x > 0) = (y > 0))

-----------------------------------------------------------------------------
(* Dicts and records with a varying set of keys *)

Get(d, k) == IF k \in DOMAIN d THEN d[k] ELSE Zero

SetKey(d, k, v) == [x \in DOMAIN d \cup {k} |-> IF x = k THEN v ELSE d[x]]

EmptyDict == [x \in {} |-> Zero]

NoStatus == [date |-> NoDate, quantity |-> 0, price |-> Zero, results |-> "none"]

-----------------------------------------------------------------------------
(* trade.plugins.prorate *)

PositionKinds == {"operations", "daytrades"}
Assets == {"ACME"}
Volumes == {0, 50, 100}
ContainerVolumes == {0, 150}
ContainerCommissions == [brokerage |-> R(2), fees |-> R(1)]
\* the commissions an operation or a position holds before the proration
GivenCommissions == { EmptyDict, [other |-> R(3), brokerage |-> R(9)] }

OperationRecords(c) == { [volume |-> v, commissions |-> c] : v \in Volumes }

PositionRecords(c) ==
    { [update_position |-> u, volume |-> v, commissions |-> c,
       operations |-> <<o1, o2>>] :
         u \in BOOLEAN, v \in Volumes, o1 \in OperationRecords(c),
         o2 \in OperationRecords(c) }

Containers ==
    UNION { { [volume |-> cv, commissions |-> ContainerCommissions,
               positions |-> [kind \in PositionKinds |->
                                [asset \in Assets |->
                                   IF kind = "operations" THEN p1 ELSE p2]]] :
                 cv \in ContainerVolumes, p1 \in PositionRecords(c),
                 p2 \in PositionRecords(c) } : c \in GivenCommissions }

NoContainer == [volume |-> 0, commissions |-> EmptyDict, positions |-> <<>>]

\* prorate_commissions_by_position replacing the commissions of the operation
\* by the prorated ones
prorate_commissions_by_position_replaces(cont, operation) ==
    IF operation.volume # 0 /\ cont.volume # 0
    THEN LET percent == RMul(RDiv(R(operation.volume), R(cont.volume)), R(100))
         IN  [operation EXCEPT !.commissions =
                [key \in DOMAIN cont.commissions |->
                    RDiv(RMul(cont.commissions[key], percent), R(100))]]
    ELSE operation

\* the operation (or position) after prorate_commissions_by_position
prorate_commissions_by_position(cont, operation) ==
    IF operation.volume # 0 /\ cont.volume # 0
    THEN LET percent == RMul(RDiv(R(operation.volume), R(cont.volume)), R(100))
             old == operation.commissions
         IN  [operation EXCEPT !.commissions =
                [key \in DOMAIN old \cup DOMAIN cont.commissions |->
                    IF key \in DOMAIN cont.commissions
                    THEN RDiv(RMul(cont.commissions[key], percent), R(100))
                    ELSE old[key]]]
    ELSE operation

\* the container after prorate_commissions
prorate_commissions(cont) ==
    [cont EXCEPT !.positions =
        [kind \in DOMAIN cont.positions |->
            [asset \in DOMAIN cont.positions[kind] |->
                LET position == cont.positions[kind][asset]
                IN  IF position.update_position
                    THEN prorate_commissions_by_position(cont, position)
                    ELSE [position EXCEPT !.operations =
                            [i \in 1..Len(position.operations) |->
                                prorate_commissions_by_position(
                                    cont, position.operations[i])]]]]]

-----------------------------------------------------------------------------
(* Accumulator.__init__ *)

SeedDate == "2019-12-31"

\* the initial_status records a caller may pass; their results dict is the
\* object "seed"
Statuses ==
    { NoStatus,
      [date |-> SeedDate, quantity |-> 2,  price |-> R(10), results |-> "seed"],
      [date |-> SeedDate, quantity |-> 0,  price |-> R(7),  results |-> "seed"] }

\* the content of the results dict of an initial_status record when it is built
SeedResults == [trades |-> R(5)]

\* the content of the dict the caller keeps and passes to several calls
SharedResults == [trades |-> Zero]

NoCall ==
    [op |-> "init", outcome |-> "ok", line |-> 0, quantity |-> 0, price |-> Zero,
     date |-> NoDate, arg |-> "omitted", id |-> "none", supplied |-> EmptyDict,
     realized |-> Zero, name |-> "none",
     pre |-> [quantity |-> 0, price |-> Zero, results |-> EmptyDict, log |-> <<>>]]

\* __init__ passing the seeded position through the commit of accumulate
InitWith_normalised(status, lg) ==
    /\ initial_status = status
    /\ IF status # NoStatus
       THEN /\ date = status.date
            /\ quantity = status.quantity
            /\ price = (IF status.quantity # 0 THEN status.price ELSE Zero)
            /\ results = status.results
            /\ heap = [i \in {"seed", "shared"} |->
                         IF i = "seed" THEN SeedResults ELSE SharedResults]
       ELSE /\ date = NoDate
            /\ quantity = 0
            /\ price = Zero
            /\ results = "own"
            /\ heap = [i \in {"own", "shared"} |->
                         IF i = "own" THEN [trades |-> Zero] ELSE SharedResults]
    /\ logging = lg
    /\ log = <<>>
    /\ ncalls = 0
    /\ last = NoCall
    /\ history = <<>>
    /\ sumSupplied = [k \in Keys |-> Zero]
    /\ sumRealized = Zero
    /\ flags = [events |-> FALSE, zeroPrice |-> FALSE]

InitWith(status, lg) ==
    /\ initial_status = status
    /\ IF status # NoStatus
       THEN /\ date = status.date
            /\ quantity = status.quantity
            /\ price = status.price
            /\ results = status.results
            /\ heap = [i \in {"seed", "shared"} |->
                         IF i = "seed" THEN SeedResults ELSE SharedResults]
       ELSE /\ date = NoDate
            /\ quantity = 0
            /\ price = Zero
            /\ results = "own"
            /\ heap = [i \in {"own", "shared"} |->
                         IF i = "own" THEN [trades |-> Zero] ELSE SharedResults]
    /\ logging = lg
    /\ log = <<>>
    /\ ncalls = 0
    /\ last = NoCall
    /\ history = <<>>
    /\ sumSupplied = [k \in Keys |-> Zero]
    /\ sumRealized = Zero
    /\ flags = [events |-> FALSE, zeroPrice |-> FALSE]

\* no container is being prorated
NoProration ==
    /\ container = NoContainer
    /\ given = NoContainer
    /\ prorated = FALSE

Init == NoProration /\ \E status \in Statuses : InitWith(status, FALSE)

InitLog == NoProration /\ InitWith(NoStatus, TRUE)

-----------------------------------------------------------------------------
(* Accumulator.log_operation *)

\* log_operation taking the position snapshot only when the date is new
log_operation_first_snapshot(lg, q, p, d, id, curQuantity, curPrice) ==
    LET l1 == IF d \notin DOMAIN lg
              THEN [x \in DOMAIN lg \cup {d} |->
                      IF x = d
                      THEN [operations |-> <<>>,
                            position |-> [quantity |-> curQuantity, price |-> curPrice]]
                      ELSE lg[x]]
              ELSE lg
        entry == [quantity |-> q, price |-> p, results |-> id]
    IN  IF "operations" \notin DOMAIN l1[d]
        THEN [log |-> l1, outcome |-> "KeyError"]
        ELSE [log |-> [l1 EXCEPT ![d] =
                         SetKey(@, "operations", Append(@["operations"], entry))],
              outcome |-> "ok"]

\* the log after log_operation, and whether it returned or raised
log_operation(lg, q, p, d, id, curQuantity, curPrice) ==
    LET l1 == IF d \notin DOMAIN lg
              THEN [x \in DOMAIN lg \cup {d} |->
                      IF x = d THEN [operations |-> <<>>] ELSE lg[x]]
              ELSE lg
        l2 == [l1 EXCEPT ![d] =
                 SetKey(@, "position", [quantity |-> curQuantity, price |-> curPrice])]
        entry == [quantity |-> q, price |-> p, results |-> id]
    IN  IF "operations" \notin DOMAIN l2[d]
        THEN [log |-> l2, outcome |-> "KeyError"]
        ELSE [log |-> [l2 EXCEPT ![d] =
                         SetKey(@, "operations", Append(@["operations"], entry))],
              outcome |-> "ok"]

-----------------------------------------------------------------------------
(* Accumulator.accumulate *)

\* the content of the results argument when the call starts
ArgDict(r) ==
    CASE r = "omitted" -> [trades |-> Zero]
      [] r = "literal" -> [daytrade |-> R(50)]
      [] r = "shared"  -> heap["shared"]

\* the trade opposes the held position: the branch that books a result
Opposes(curQuantity, q) == ~same_sign(curQuantity, q) /\ curQuantity # 0

\* new_price with the plain execution price where the average is due
new_price_unweighted(curQuantity, curPrice, q, p) ==
    IF same_sign(curQuantity, q)
    THEN IF curQuantity + q # 0 THEN p ELSE Zero
    ELSE IF curQuantity # 0
         THEN IF same_sign(curQuantity, curQuantity + q) THEN curPrice ELSE p
         ELSE p

\* new_price keeping the old average price when the position flips
new_price_flip_keeps(curQuantity, curPrice, q, p) ==
    IF same_sign(curQuantity, q)
    THEN IF curQuantity + q # 0
         THEN average_price(curQuantity, curPrice, q, p)
         ELSE Zero
    ELSE IF curQuantity # 0 THEN curPrice ELSE p

\* new_price zeroing the price of a position that changes side
new_price_flip_zero(curQuantity, curPrice, q, p) ==
    IF same_sign(curQuantity, q)
    THEN IF curQuantity + q # 0
         THEN average_price(curQuantity, curPrice, q, p)
         ELSE Zero
    ELSE IF curQuantity # 0
         THEN IF same_sign(curQuantity, curQuantity + q) THEN curPrice ELSE Zero
         ELSE p

\* the average price computed by the three branches, before the commit
new_price(curQuantity, curPrice, q, p) ==
    IF same_sign(curQuantity, q)
    THEN IF curQuantity + q # 0
         THEN average_price(curQuantity, curPrice, q, p)
         ELSE Zero
    ELSE IF curQuantity # 0
         THEN IF same_sign(curQuantity, curQuantity + q) THEN curPrice ELSE p
         ELSE p

\* trade_result with the signed traded quantity in place of abs(quantity)
trade_result_signed(curPrice, q, p) ==
    RSub(RMul(R(q), p), RMul(R(q), curPrice))

\* the result of an opposing trade
trade_result(curPrice, q, p) ==
    RSub(RMul(R(Abs(q)), p), RMul(R(Abs(q)), curPrice))

\* commit_price without the reset of the price of a flat position
commit_price_stale(new_quantity, newPrice) == newPrice

\* the price committed with the new quantity
commit_price(new_quantity, newPrice) ==
    IF new_quantity # 0 THEN newPrice ELSE Zero

\* merge_results assigning the supplied value in place of adding it
merge_results_overwrite(acc, res) ==
    [k \in DOMAIN acc \cup DOMAIN res |->
        IF k \in DOMAIN res THEN res[k] ELSE acc[k]]

\* merge_results adding only to the keys self.results already has
merge_results_known_keys(acc, res) ==
    [k \in DOMAIN acc |->
        IF k \in DOMAIN res THEN RAdd(acc[k], res[k]) ELSE acc[k]]

\* self.results after the loop that adds every item of the mapping to it
merge_results(acc, res) ==
    [k \in DOMAIN acc \cup DOMAIN res |->
        IF k \in DOMAIN res THEN RAdd(Get(acc, k), res[k]) ELSE acc[k]]

Accumulate(q, p, d, r) ==
    LET id  == IF r = "shared" THEN "shared" ELSE FreshIds[ncalls + 1]
        arg == ArgDict(r)
        opp == Opposes(quantity, q)
        call == [op |-> "accumulate", outcome |-> "ok", line |-> 0, quantity |-> q,
                 price |-> R(p), date |-> d, arg |-> r, id |-> id, supplied |-> arg,
                 realized |-> Zero, name |-> "none",
                 pre |-> [quantity |-> quantity, price |-> price,
                          results |-> heap[results], log |-> log]]
    IN
    /\ ncalls' = ncalls + 1
    /\ UNCHANGED <<initial_status, date, results, logging>>
    /\ UNCHANGED <<container, given, prorated>>
    /\ IF opp /\ "trades" \notin DOMAIN arg
       THEN \* results['trades'] += ... raises KeyError before any assignment
            /\ last' = [call EXCEPT !.outcome = "KeyError", !.line = 218]
            /\ UNCHANGED <<quantity, price, log, heap, history, sumSupplied,
                           sumRealized, flags>>
       ELSE LET realized == IF opp THEN trade_result(price, q, R(p)) ELSE Zero
                res == IF opp THEN [arg EXCEPT !["trades"] = RAdd(@, realized)]
                              ELSE arg
                new_quantity == quantity + q
                newPrice == commit_price(new_quantity,
                                         new_price(quantity, price, q, R(p)))
                merged == merge_results(heap[results], res)
                out == IF logging
                       THEN log_operation(log, q, R(p), d, id, new_quantity, newPrice)
                       ELSE [log |-> log, outcome |-> "ok"]
                \* the argument stays referenced by the caller or by the log entry
                kept == r = "shared" \/ (logging /\ out.outcome = "ok")
                heap1 == [heap EXCEPT ![results] = merged]
            IN  /\ quantity' = new_quantity
                /\ price' = newPrice
                /\ heap' = IF kept
                           THEN [i \in DOMAIN heap1 \cup {id} |->
                                   IF i = id THEN res ELSE heap1[i]]
                           ELSE heap1
                /\ log' = out.log
                /\ last' = [call EXCEPT !.outcome = out.outcome,
                                        !.line = IF out.outcome = "ok" THEN 0 ELSE 139,
                                        !.realized = realized]
                /\ history' = IF logging /\ out.outcome = "ok"
                              THEN Append(history,
                                          [date |-> d, quantity |-> q,
                                           price |-> R(p), results |-> id,
                                           supplied |-> arg,
                                           after |-> [quantity |-> new_quantity,
                                                      price |-> newPrice]])
                              ELSE history
                /\ sumSupplied' = [k \in Keys |-> RAdd(sumSupplied[k], Get(arg, k))]
                /\ sumRealized' = RAdd(sumRealized, realized)
                /\ flags' = [flags EXCEPT !.zeroPrice = @ \/ p = 0]

\* accumulate_operation: the quantity, real_price and date of an operation
\* record, given to accumulate with no results mapping
AccumulateOperation(operation) ==
    Accumulate(operation.quantity, operation.real_price, operation.date, "omitted")

-----------------------------------------------------------------------------
(* Event.update_portfolio, Accumulator.accumulate_event, Accumulator.log_event *)

\* what an event variant returns and does to the results mapping it is given
update_portfolio(kind, q, p, res) ==
    CASE kind = "split"    -> [quantity |-> 2 * q, price |-> RDiv(p, R(2)), results |-> res]
      [] kind = "payout"   -> [quantity |-> q, price |-> p,
                               results |-> SetKey(res, "dividends",
                                                  RAdd(Get(res, "dividends"), R(5)))]
      [] kind = "writeoff" -> [quantity |-> 0, price |-> p, results |-> res]

log_event(lg, name, d, curQuantity, curPrice) ==
    LET l1 == IF d \notin DOMAIN lg
              THEN [x \in DOMAIN lg \cup {d} |->
                      IF x = d THEN [events |-> <<>>] ELSE lg[x]]
              ELSE IF "events" \notin DOMAIN lg[d]
                   THEN [lg EXCEPT ![d] = SetKey(@, "events", <<>>)]
                   ELSE lg
        l2 == [l1 EXCEPT ![d] =
                 SetKey(@, "position", [quantity |-> curQuantity, price |-> curPrice])]
    IN  [l2 EXCEPT ![d] = SetKey(@, "events", Append(@["events"], [name |-> name]))]

\* accumulate_event resetting the price of a flat position, as accumulate does
AccumulateEvent_normalised(kind, d) ==
    LET out == update_portfolio(kind, quantity, price, heap[results])
        newPrice == commit_price(out.quantity, out.price)
    IN  /\ ncalls' = ncalls + 1
        /\ quantity' = out.quantity
        /\ price' = newPrice
        /\ heap' = [heap EXCEPT ![results] = out.results]
        /\ log' = IF logging
                  THEN log_event(log, kind, d, out.quantity, newPrice)
                  ELSE log
        /\ last' = [op |-> "accumulate_event", outcome |-> "ok", line |-> 0,
                    quantity |-> 0, price |-> Zero, date |-> d, arg |-> "omitted",
                    id |-> "none", supplied |-> EmptyDict, realized |-> Zero,
                    name |-> kind,
                    pre |-> [quantity |-> quantity, price |-> price,
                             results |-> heap[results], log |-> log]]
        /\ flags' = [flags EXCEPT !.events = TRUE]
        /\ UNCHANGED <<initial_status, date, results, logging, history,
                       sumSupplied, sumRealized>>
        /\ UNCHANGED <<container, given, prorated>>

\* accumulate_event logging the event whatever self.logging is
AccumulateEvent_always_logs(kind, d) ==
    LET out == update_portfolio(kind, quantity, price, heap[results])
    IN  /\ ncalls' = ncalls + 1
        /\ quantity' = out.quantity
        /\ price' = out.price
        /\ heap' = [heap EXCEPT ![results] = out.results]
        /\ log' = log_event(log, kind, d, out.quantity, out.price)
        /\ last' = [op |-> "accumulate_event", outcome |-> "ok", line |-> 0,
                    quantity |-> 0, price |-> Zero, date |-> d, arg |-> "omitted",
                    id |-> "none", supplied |-> EmptyDict, realized |-> Zero,
                    name |-> kind,
                    pre |-> [quantity |-> quantity, price |-> price,
                             results |-> heap[results], log |-> log]]
        /\ flags' = [flags EXCEPT !.events = TRUE]
        /\ UNCHANGED <<initial_status, date, results, logging, history,
                       sumSupplied, sumRealized>>
        /\ UNCHANGED <<container, given, prorated>>

AccumulateEvent(kind, d) ==
    LET out == update_portfolio(kind, quantity, price, heap[results])
    IN  /\ ncalls' = ncalls + 1
        /\ quantity' = out.quantity
        /\ price' = out.price
        /\ heap' = [heap EXCEPT ![results] = out.results]
        /\ log' = IF logging
                  THEN log_event(log, kind, d, out.quantity, out.price)
                  ELSE log
        /\ last' = [op |-> "accumulate_event", outcome |-> "ok", line |-> 0,
                    quantity |-> 0, price |-> Zero, date |-> d, arg |-> "omitted",
                    id |-> "none", supplied |-> EmptyDict, realized |-> Zero,
                    name |-> kind,
                    pre |-> [quantity |-> quantity, price |-> price,
                             results |-> heap[results], log |-> log]]
        /\ flags' = [flags EXCEPT !.events = TRUE]
        /\ UNCHANGED <<initial_status, date, results, logging, history,
                       sumSupplied, sumRealized>>
        /\ UNCHANGED <<container, given, prorated>>

-----------------------------------------------------------------------------
(* Specifications *)

\* an accumulator that does not log, driven by trades and events
CallAccumulate ==
    /\ ncalls < MaxCalls
    /\ \E q \in Quantities, p \in Prices, r \in ResultsArgs :
          Accumulate(q, p, NoDate, r)

CallAccumulateOperation ==
    /\ ncalls < MaxCalls
    /\ \E q \in Quantities, p \in Prices :
          AccumulateOperation([quantity |-> q, real_price |-> p, date |-> NoDate])

CallAccumulateEvent ==
    /\ ncalls < MaxCalls
    /\ \E kind \in EventKinds : AccumulateEvent(kind, SeedDate)

Next == CallAccumulate \/ CallAccumulateOperation \/ CallAccumulateEvent

Spec == Init /\ [][Next]_vars

\* an accumulator that logs, driven by dated trades and events
LogAccumulate ==
    /\ ncalls < MaxLogCalls
    /\ \E q \in LogQuantities, p \in LogPrices, d \in Dates, r \in ResultsArgs :
          Accumulate(q, p, d, r)

LogAccumulateEvent ==
    /\ ncalls < MaxLogCalls
    /\ \E kind \in {"split", "payout"}, d \in Dates : AccumulateEvent(kind, d)

LogAccumulateOperation ==
    /\ ncalls < MaxLogCalls
    /\ \E q \in LogQuantities, p \in LogPrices, d \in Dates :
          AccumulateOperation([quantity |-> q, real_price |-> p, date |-> d])

NextLog == LogAccumulate \/ LogAccumulateOperation \/ LogAccumulateEvent

SpecLog == InitLog /\ [][NextLog]_vars

\* a container of positions whose commissions are prorated
InitProrate ==
    /\ InitWith(NoStatus, FALSE)
    /\ \E c \in Containers : container = c /\ given = c
    /\ prorated = FALSE

ProrateCommissions ==
    /\ ~prorated
    /\ container' = prorate_commissions(container)
    /\ prorated' = TRUE
    /\ UNCHANGED <<initial_status, date, quantity, price, results, logging, log,
                   heap, ncalls, last, history, sumSupplied, sumRealized, flags,
                   given>>

NextProrate == ProrateCommissions

SpecProrate == InitProrate /\ [][NextProrate]_vars

-----------------------------------------------------------------------------
(* Properties of accumulate *)

Applied == last.op = "accumulate" /\ last.outcome = "ok"

Trades(res) == Get(res, "trades")

\* the trade of the last call has the strict sign of the position it met
SameDirection ==
    /\ last.pre.quantity # 0
    /\ last.quantity # 0
    /\ (last.pre.quantity > 0) = (last.quantity > 0)

\* the trade of the last call has the sign opposite to the position it met
OppositeDirection ==
    /\ last.pre.quantity # 0
    /\ last.quantity # 0
    /\ (last.pre.quantity > 0) # (last.quantity > 0)

\* abs(quantity)*price - abs(quantity)*current_price of the last call
StatedResult ==
    RMul(R(Abs(last.quantity)), RSub(last.price, last.pre.price))

\* C1: after every accumulate call, whatever the state before it (fresh,
\* seeded, left by an event) and whatever the trade, a zero quantity is
\* committed with price 0.
C1_FlatMeansZeroPrice ==
    last.op = "accumulate" => (quantity = 0 => price = Zero)

\* C1 witness: a trade closed a priced position exactly, at a nonzero price.
C1_Witness ==
    /\ Applied
    /\ last.pre.quantity # 0
    /\ last.pre.price # Zero
    /\ last.price # Zero
    /\ quantity = 0
    /\ price = Zero

\* C2 as stated: from a fresh accumulator, under accumulate calls alone (all
\* prices of the model are non-negative), quantity = 0 exactly when price = 0.
C2_ZeroIffZero ==
    (initial_status = NoStatus /\ ~flags.events)
        => ((quantity = 0) <=> (price = Zero))

\* C2 amended: from a fresh accumulator, under accumulate calls alone whose
\* execution prices are all strictly positive, quantity = 0 exactly when
\* price = 0.
C2_ZeroIffZeroPositivePrices ==
    (initial_status = NoStatus /\ ~flags.events /\ ~flags.zeroPrice)
        => ((quantity = 0) <=> (price = Zero))

\* C2 witness: positively priced trades only, the last one turned the
\* position to the other side, and a priced position is held.
C2_Witness ==
    /\ initial_status = NoStatus /\ ~flags.events /\ ~flags.zeroPrice
    /\ Applied /\ OppositeDirection
    /\ Abs(last.quantity) > Abs(last.pre.quantity)
    /\ quantity # 0 /\ price # Zero

\* C3: a trade in the direction of the held position commits the sum of the
\* quantities and the quantity-weighted average of the held and the incoming
\* price, and books no trade result: results["trades"] grows by the value
\* the caller supplied and nothing else.  A first trade from a flat fresh
\* accumulator commits its own quantity and price, so that two trades of one
\* direction from flat give (q1*p1 + q2*p2)/(q1 + q2).
C3_WeightedAverage ==
    /\ (Applied /\ SameDirection) =>
          /\ quantity = last.pre.quantity + last.quantity
          /\ RMul(price, R(quantity)) =
                RAdd(RMul(R(last.pre.quantity), last.pre.price),
                     RMul(R(last.quantity), last.price))
          /\ Trades(heap[results]) =
                RAdd(Trades(last.pre.results), Trades(last.supplied))
    /\ (Applied /\ last.pre.quantity = 0 /\ last.quantity # 0) =>
          /\ quantity = last.quantity
          /\ price = last.price

\* C3 witness: the second of two trades of one direction, at different
\* prices, from a flat fresh accumulator.
C3_Witness ==
    /\ initial_status = NoStatus /\ ~flags.events /\ ncalls = 2
    /\ Applied /\ SameDirection
    /\ last.price # last.pre.price
    /\ last.pre.price # Zero

\* C4: an opposing trade no larger than the held position (a reduction or an
\* exact close, of a long or a short position) adds
\* abs(quantity)*price - abs(quantity)*current_price to results["trades"]
\* (on top of the value the caller supplied for "trades"), commits
\* current_quantity + quantity and keeps the average price while a position
\* is left.
C4_ReduceOrClose ==
    (Applied /\ OppositeDirection /\ Abs(last.quantity) <= Abs(last.pre.quantity)) =>
        /\ Trades(heap[results]) =
              RAdd(RAdd(Trades(last.pre.results), Trades(last.supplied)),
                   StatedResult)
        /\ quantity = last.pre.quantity + last.quantity
        /\ (quantity # 0 => price = last.pre.price)
        /\ (quantity = 0 => price = Zero)

\* C4 witness: a sale of part of a long position at a price above its
\* average price.
C4_Witness ==
    /\ Applied /\ OppositeDirection
    /\ last.pre.quantity > 0
    /\ quantity > 0
    /\ RPos(StatedResult)

\* C5: an opposing trade larger than the held position commits
\* current_quantity + quantity at the execution price of the trade and adds
\* abs(quantity)*price - abs(quantity)*current_price, on the whole traded
\* quantity, to results["trades"].
C5_Flip ==
    (Applied /\ OppositeDirection /\ Abs(last.quantity) > Abs(last.pre.quantity)) =>
        /\ quantity = last.pre.quantity + last.quantity
        /\ price = last.price
        /\ Trades(heap[results]) =
              RAdd(RAdd(Trades(last.pre.results), Trades(last.supplied)),
                   StatedResult)

\* C5 witness: a long position turned short by a sale at another price.
C5_Witness ==
    /\ Applied /\ OppositeDirection
    /\ last.pre.quantity > 0
    /\ quantity < 0
    /\ last.price # last.pre.price
    /\ StatedResult # Zero

\* the results before the last call, with every supplied value added
merge_results_stated ==
    [k \in DOMAIN last.pre.results \cup DOMAIN last.supplied |->
        RAdd(Get(last.pre.results, k), Get(last.supplied, k))]

\* C6 as stated: no accumulate call raises, whatever the position and the
\* results mapping given, a mapping without a "trades" key included.
C6_NeverRaises ==
    last.op = "accumulate" => last.outcome = "ok"

\* the results of the accumulator when it was constructed
InitialResults ==
    IF initial_status = NoStatus THEN [trades |-> Zero] ELSE SeedResults

\* C7: under accumulate calls alone, a call never removes a key of the
\* accumulator's results and leaves every key it supplied, and every key holds its initial value plus the sum
\* of the values supplied for it by the calls that were applied, plus, for
\* "trades", the trade results those calls generated.
C7_ResultsAreSums ==
    ~flags.events =>
        /\ DOMAIN last.pre.results \subseteq DOMAIN heap[results]
        /\ DOMAIN InitialResults \subseteq DOMAIN heap[results]
        /\ Applied => DOMAIN last.supplied \subseteq DOMAIN heap[results]
        /\ \A k \in Keys :
              Get(heap[results], k) =
                    RAdd(RAdd(Get(InitialResults, k), sumSupplied[k]),
                         IF k = "trades" THEN sumRealized ELSE Zero)

\* C7 witness: the custom key "daytrade" was supplied by two calls, and a
\* trade result was generated as well.
C7_Witness ==
    /\ ~flags.events
    /\ Applied
    /\ "daytrade" \in DOMAIN last.pre.results
    /\ "daytrade" \in DOMAIN last.supplied
    /\ Get(heap[results], "daytrade") = R(100)
    /\ sumRealized # Zero

-----------------------------------------------------------------------------
(* Properties of the log *)

\* the accumulate calls made with date d, in call order
CallsOn(d) ==
    LET OnDate(h) == h.date = d
    IN  SelectSeq(history, OnDate)

Snapshot == [quantity |-> quantity, price |-> price]

\* C8: with logging, under accumulate calls alone, the log holds one record
\* for each date used; its operations are the calls made with that date, in
\* call order, each as {quantity, price, results}; its position is the
\* position left by the last call made with that date.
C8_OneRecordPerDate ==
    (logging /\ ~flags.events) =>
        /\ DOMAIN log = { history[i].date : i \in 1..Len(history) }
        /\ \A d \in DOMAIN log :
              LET calls == CallsOn(d)
              IN  /\ DOMAIN log[d] = {"operations", "position"}
                  /\ Len(log[d]["operations"]) = Len(calls)
                  /\ \A i \in 1..Len(calls) :
                        log[d]["operations"][i] =
                            [quantity |-> calls[i].quantity,
                             price |-> calls[i].price,
                             results |-> calls[i].results]
                  /\ log[d]["position"] = calls[Len(calls)].after
        /\ Applied => log[last.date]["position"] = Snapshot

\* C8 witness: two calls were made with one date and the second one changed
\* the position.
C8_Witness ==
    /\ logging /\ ~flags.events /\ Applied
    /\ Len(CallsOn(last.date)) = 2
    /\ CallsOn(last.date)[1].after # Snapshot
    /\ log[last.date]["position"] = Snapshot

\* C9 as stated: no call removes or changes an entry of an operations list:
\* the entry stays at its place with its quantity, its price and the content
\* of its results.
C9_AppendOnly ==
    [][\A d \in DOMAIN log :
          "operations" \in DOMAIN log[d] =>
              /\ d \in DOMAIN log'
              /\ "operations" \in DOMAIN log'[d]
              /\ Len(log'[d]["operations"]) >= Len(log[d]["operations"])
              /\ \A i \in 1..Len(log[d]["operations"]) :
                    LET old == log[d]["operations"][i]
                        new == log'[d]["operations"][i]
                    IN  /\ new.quantity = old.quantity
                        /\ new.price = old.price
                        /\ heap'[new.results] = heap[old.results]]_vars

\* the list of the other kind of call
OtherList == IF last.op = "accumulate" THEN "events" ELSE "operations"
OwnList == IF last.op = "accumulate" THEN "operations" ELSE "events"

\* C10 as stated: with logging, a trade on a date that has events and an
\* event on a date that has operations both return, and leave one record
\* with both lists, the call's entry appended, and the position after the
\* call.  (A call that stops at the trade result of C6 is left aside.)
C10_EitherOrder ==
    ( /\ logging
      /\ last.op \in {"accumulate", "accumulate_event"}
      /\ last.line # 218
      /\ last.date \in DOMAIN last.pre.log
      /\ OtherList \in DOMAIN last.pre.log[last.date] ) =>
        /\ last.outcome = "ok"
        /\ {"operations", "events"} \subseteq DOMAIN log[last.date]
        /\ Len(log[last.date][OwnList]) =
              1 + (IF OwnList \in DOMAIN last.pre.log[last.date]
                   THEN Len(last.pre.log[last.date][OwnList]) ELSE 0)
        /\ log[last.date][OtherList] = last.pre.log[last.date][OtherList]
        /\ log[last.date]["position"] = Snapshot

-----------------------------------------------------------------------------
(* Properties of the date, of events, of logging and of seeding *)

\* C11 as stated: after an accumulate call made with date d has changed the
\* state, the date attribute of the accumulator is d.
C11_DateOfLastChange ==
    (Applied /\ last.date # NoDate) => date = last.date

Event == last.op = "accumulate_event"

\* what the event of the last call returned, from the state it was given
Returned ==
    update_portfolio(last.name, last.pre.quantity, last.pre.price, last.pre.results)

\* C12: accumulate_event commits the quantity and the price the event
\* returned, as they are, and leaves in results what the event left there:
\* no average, no trade result, no reset of the price.
C12_EventCommitsReturnedPair ==
    Event =>
        /\ quantity = Returned.quantity
        /\ price = Returned.price
        /\ heap[results] = Returned.results
        /\ (last.name # "payout" => heap[results] = last.pre.results)

\* C12 witness: an event returned quantity 0 with a nonzero price, and the
\* pair was committed.
C12_Witness ==
    /\ Event
    /\ last.pre.quantity # 0
    /\ quantity = 0
    /\ price # Zero

\* C13: while logging is false the log is empty, whatever was called.
C13_NoLogWithoutLogging ==
    ~logging => log = <<>>

\* C13 witness: without logging, a trade was applied after an event and the
\* log is empty.
C13_Witness ==
    /\ ~logging
    /\ Applied
    /\ flags.events
    /\ quantity # 0
    /\ log = <<>>

\* C14: before any call, an accumulator built with an initial_status holds
\* its date, quantity, price and results as given, and one built without
\* holds no date, quantity 0, price 0 and {"trades": 0}; the log is empty.
C14_SeededVerbatim ==
    ncalls = 0 =>
        /\ log = <<>>
        /\ IF initial_status = NoStatus
           THEN /\ date = NoDate
                /\ quantity = 0
                /\ price = Zero
                /\ heap[results] = [trades |-> Zero]
           ELSE /\ date = initial_status.date
                /\ quantity = initial_status.quantity
                /\ price = initial_status.price
                /\ results = initial_status.results
                /\ heap[results] = SeedResults

\* C14 witness: a seeded accumulator holding a flat position with the
\* nonzero price of its initial_status.
C14_Witness ==
    /\ ncalls = 0
    /\ initial_status # NoStatus
    /\ quantity = 0
    /\ price = R(7)

-----------------------------------------------------------------------------
(* Properties of the proration *)

\* what C15 says of one operation (or position) before and after
ProratedAs(before, after) ==
    /\ after.volume = before.volume
    /\ IF before.volume = 0 \/ given.volume = 0
       THEN after.commissions = before.commissions
       ELSE /\ DOMAIN after.commissions =
                  DOMAIN before.commissions \cup DOMAIN given.commissions
            /\ \A key \in DOMAIN given.commissions :
                  RMul(after.commissions[key], R(given.volume)) =
                      RMul(given.commissions[key], R(before.volume))
            /\ \A key \in DOMAIN before.commissions \ DOMAIN given.commissions :
                  after.commissions[key] = before.commissions[key]

\* C15: after prorate_commissions, every position flagged update_position
\* and every operation of the other positions holds, for each key of the
\* container's commissions, that commission times its volume over the
\* container's volume, and its other commissions as before; nothing changes
\* where one of the two volumes is 0; the rest of the container is as given.
C15_Prorated ==
    prorated =>
        /\ container.volume = given.volume
        /\ container.commissions = given.commissions
        /\ DOMAIN container.positions = DOMAIN given.positions
        /\ \A kind \in DOMAIN given.positions :
              /\ DOMAIN container.positions[kind] = DOMAIN given.positions[kind]
              /\ \A asset \in DOMAIN given.positions[kind] :
                    LET before == given.positions[kind][asset]
                        after == container.positions[kind][asset]
                    IN  /\ after.update_position = before.update_position
                        /\ Len(after.operations) = Len(before.operations)
                        /\ IF before.update_position
                           THEN /\ ProratedAs(before, after)
                                /\ after.operations = before.operations
                           ELSE /\ after.volume = before.volume
                                /\ after.commissions = before.commissions
                                /\ \A i \in 1..Len(before.operations) :
                                      ProratedAs(before.operations[i],
                                                 after.operations[i])

\* C15 witness: a flagged position with a volume and commissions of its own
\* was prorated beside a position whose operations, one of them of volume 0,
\* were.
C15_Witness ==
    /\ prorated
    /\ given.volume # 0
    /\ LET flagged == given.positions["operations"]["ACME"]
           other == given.positions["daytrades"]["ACME"]
       IN  /\ flagged.update_position
           /\ flagged.volume # 0
           /\ "other" \in DOMAIN flagged.commissions
           /\ container.positions["operations"]["ACME"].commissions["brokerage"] # R(9)
           /\ ~other.update_position
           /\ other.operations[1].volume = 0
           /\ other.operations[2].volume # 0

-----------------------------------------------------------------------------
(* Properties of the results *)

\* what the last call added to results["trades"] beyond the value supplied
BookedResult ==
    RSub(Trades(heap[results]),
         RAdd(Trades(last.pre.results), Trades(last.supplied)))

\* C16 as stated: a purchase that reduces or closes a short position adds a
\* gain to results["trades"] when its price is below the average price of
\* the position, and a loss when its price is above it.
C16_ShortGainAndLoss ==
    ( /\ Applied /\ OppositeDirection
      /\ last.pre.quantity < 0
      /\ Abs(last.quantity) <= Abs(last.pre.quantity) ) =>
        /\ RPos(RSub(last.pre.price, last.price)) => RPos(BookedResult)
        /\ RPos(RSub(last.price, last.pre.price)) => RPos(RSub(Zero, BookedResult))

Unshared == \A i \in 1..Len(history) : history[i].results # "shared"

\* the position the i-th logged call met
Met(i) ==
    IF i = 1 THEN [quantity |-> 0, price |-> Zero] ELSE history[i - 1].after

\* the trade result the i-th logged call generated, as section 4.1 states it
Generated(i) ==
    LET met == Met(i)
        call == history[i]
    IN  IF met.quantity # 0 /\ call.quantity # 0
           /\ (met.quantity > 0) # (call.quantity > 0)
        THEN RMul(R(Abs(call.quantity)), RSub(call.price, met.price))
        ELSE Zero

\* the sum of entry.results[k] over the entries of a list
RECURSIVE SumOfEntries(_, _)
SumOfEntries(entries, k) ==
    IF entries = <<>>
    THEN Zero
    ELSE RAdd(Get(heap[Head(entries).results], k), SumOfEntries(Tail(entries), k))

\* the sum of entry.results[k] over the operations of a set of dates
RECURSIVE SumOfDates(_, _)
SumOfDates(dates, k) ==
    IF dates = {}
    THEN Zero
    ELSE LET d == CHOOSE x \in dates : TRUE
         IN  RAdd(SumOfEntries(log[d]["operations"], k),
                  SumOfDates(dates \ {d}, k))

\* C18: with logging, on a fresh accumulator under accumulate calls alone,
\* none of them given a mapping used by another call, the results of every
\* entry are the supplied values with the trade result of its call added to
\* "trades", and every key of the accumulator's results holds the sum of
\* that key over all the entries of all the dates.
C18_LoggedResultsSumUp ==
    (logging /\ initial_status = NoStatus /\ ~flags.events /\ Unshared) =>
        /\ \A i \in 1..Len(history) :
              heap[history[i].results] =
                  [k \in DOMAIN history[i].supplied |->
                      IF k = "trades"
                      THEN RAdd(history[i].supplied[k], Generated(i))
                      ELSE history[i].supplied[k]]
        /\ \A k \in Keys :
              Get(heap[results], k) = SumOfDates(DOMAIN log, k)

\* C18 witness: entries on two dates, one of them with a trade result, one
\* with a custom key.
C18_Witness ==
    /\ logging /\ initial_status = NoStatus /\ ~flags.events /\ Unshared
    /\ DOMAIN log = Dates
    /\ Trades(heap[results]) # Zero
    /\ Get(heap[results], "daytrade") # Zero
    /\ \E i \in 1..Len(history) : Generated(i) # Zero

\* C19 as stated: under accumulate calls, the results mapping of the
\* initial_status record keeps the values it was built with.
C19_SeedRecordUnchanged ==
    (initial_status # NoStatus /\ ~flags.events) => heap["seed"] = SeedResults

\* C20 as stated: a call that fails while it writes the log leaves quantity,
\* price, results and the position snapshot of its date as they were.
C20_FailedCallChangesNothing ==
    (logging /\ last.outcome = "KeyError" /\ last.line = 139) =>
        /\ quantity = last.pre.quantity
        /\ price = last.pre.price
        /\ heap[results] = last.pre.results
        /\ log[last.date]["position"] = last.pre.log[last.date]["position"]

====
